---- MODULE Spec2Model ----
(***************************************************************************)
(* The interactive network graph editor of src/hooks/useNetworkEditor.js   *)
(* (the revision with the adjacency index and the in-place caches, lines   *)
(* 1-450) together with the context menu that drives it                    *)
(* (NetworkEditorMenu, src/unnamed/part_000 lines 138-180).                *)
(*                                                                         *)
(* Conventions.                                                            *)
(*  - A coordinate is a natural number counting units of 1e-7 degree, so   *)
(*    that toFixed(6) is a rounding to the nearest multiple of 10.         *)
(*  - An id is a pair <<prefix, number>>: the template strings             *)
(*    `n${k}`, `e${k}`, `n_split_${ts}`, `e_conn_${ts}`, `e_${ts}a`,       *)
(*    `e_${ts}b` are injective and never collide across prefixes.          *)
(*  - A JS Map is a function; the order in which a Map is iterated is not  *)
(*    kept (no handler's result depends on it).                            *)
(*  - A FeatureCollection's features array is a sequence of records        *)
(*    [id, coords]; a feature Map (nodeFeatMap, edgeFeatMap) maps an id to *)
(*    the POSITION in that array of the feature object it references, so   *)
(*    that "the same object is in the Map and in the array" is kept.       *)
(*  - null is the record NoDrag / NoMenu / the id NoId.                    *)
(*  - Date.now() is an input of the handler that calls it: a reading not   *)
(*    less than the last one (equal readings are possible).                *)
(*  - setData is asynchronous: the map renders, and its events and         *)
(*    hit-tests report, the features of an earlier setData until Render.   *)
(*                                                                         *)
(* Specifications.                                                          *)
(*  - Spec: every event of the editor, at most MaxEdits edits per load.    *)
(*  - SpecStill: clicks without pointer-moves within one clock reading, at *)
(*    most MaxStillEdits edits per load.                                   *)
(*  - SpecMoves: loads and drags that edit nothing but positions.          *)
(*  - SpecParse: the first load, over a family of small line collections.  *)
(*  - SpecRace: a node menu that stays open over a drag, and its deletion. *)
(*  - SpecLoad: the consumers of useNetworkData (src/hooks/                *)
(*    useNetworkData.js) and the one shapefile load they share.            *)
(*  - SpecMenu: right-clicks that land on the edge layer, the node layer   *)
(*    or both.                                                             *)
(*  - SpecMount: mount, map load and cleanup of the editor in every order. *)
(*  - SpecNetwork: the mounts of useNetwork (src/hooks/useNetwork.js) and  *)
(*    their shapefile loads.                                               *)
(*  - SpecHover: hovering, pressing and releasing over the node layer.     *)
(***************************************************************************)
EXTENDS Integers, Sequences, FiniteSets, TLC

VARIABLES
  netRef,          \* netRef.current: [nodes, edges, nodeEdgeIndex]
  cacheRef,        \* cacheRef.current: [null, nodeFC, edgeFC, nodeFeatMap, edgeFeatMap]
  draggingRef,     \* draggingRef.current: NoDrag or [nodeId, origLng, origLat]
  hoveredNodeRef,  \* hoveredNodeRef.current: NoId or a node id
  contextMenu,     \* React state: NoMenu or [type, id, lng, lat]
  addedRef,        \* addedRef.current: the editor's sources, layers and handlers are on the map
  phase,           \* the mount effect: "unmounted", "mounted", "cleaned"
  styleLoaded,     \* map.isStyleLoaded()
  loadPending,     \* map.once("load", init) is registered
  dragPan,         \* map.dragPan is enabled
  src,             \* the data last given to the two GeoJSON sources (setData / addSource)
  rendered,        \* the ids of the features the map currently renders (what events and hit-tests see)
  now,             \* the last reading of Date.now()
  threw,           \* a handler raised a TypeError
  edits,           \* observer: the number of connects, splits and deletions since the last rebuild
  cachedData,      \* useNetworkData.js: the module's cachedData
  loadingPromise,  \* useNetworkData.js: the module's loadingPromise, [state, value]
  shpCalls,        \* observer: the number of calls of shp()
  consumers,       \* the components that call useNetworkData: [pc, data] each
  network          \* useNetwork.js: [styleLoaded, source, layer, added, runs]

\* the state of the network loader (useNetworkData.js) and of the network layer
\* (useNetwork.js), which no handler of the editor touches
loaderVars == <<cachedData, loadingPromise, shpCalls, consumers, network>>

vars == <<netRef, cacheRef, draggingRef, hoveredNodeRef, contextMenu, addedRef, phase,
          styleLoaded, loadPending, dragPan, src, rendered, now, threw, edits,
          cachedData, loadingPromise, shpCalls, consumers, network>>

-----------------------------------------------------------------------------
(* Bounds of the model *)

\* the clock readings are 0..MaxClock
MaxClock == 1
\* at most this many connects, splits and deletions follow a rebuild
MaxEdits == 1
\* at most this many connects, splits and deletions follow a rebuild in SpecStill
MaxStillEdits == 4
\* a hit-test returns at most this many node features
MaxHits == 2

-----------------------------------------------------------------------------
(* Ids and null values *)

NoId == <<"none", 0>>
NodeId(k) == <<"n", k>>
EdgeId(k) == <<"e", k>>
SplitNodeId(ts) == <<"n_split_", ts>>
ConnEdgeId(ts) == <<"e_conn_", ts>>
SplitEdgeIdA(ts) == <<"e_a", ts>>
SplitEdgeIdB(ts) == <<"e_b", ts>>

NoDrag == [nodeId |-> NoId, origLng |-> 0, origLat |-> 0]
NoMenu == [type |-> "none", id |-> NoId, lng |-> 0, lat |-> 0]
EmptyMap == [k \in {} |-> k]

Range(s) == {s[i] : i \in DOMAIN s}

\* Map.delete(k)
MapDelete(m, k) == [x \in DOMAIN m \ {k} |-> m[x]]
\* Map.set(k, v)
MapSet(m, k, v) == [x \in DOMAIN m \cup {k} |-> IF x = k THEN v ELSE m[x]]

-----------------------------------------------------------------------------
(* The inputs *)

\* the pointer positions (e.lngLat) of the pointer-moves
MovePoints == {<<100, 0>>}
\* the pointer positions (e.lngLat) of the right-clicks on an edge
MenuPoints == {<<100, 0>>, <<300, 100>>}

\* the pointer position of the right-clicks on an edge in SpecStill
StillPoints == {<<300, 100>>}

\* mouse buttons: 0 is the primary button, 2 the secondary
Buttons == {0, 2}

\* One LineString of three vertices.
Net1 == << [type |-> "LineString",
            coordinates |-> << <<0, 0>>, <<200, 0>>, <<400, 0>> >>] >>
Networks == {Net1}

\* A MultiLineString of two rings sharing a vertex, and a ring of one vertex
\* that quantizes onto the first vertex.
Net2 == << [type |-> "MultiLineString",
            coordinates |-> << << <<0, 0>>, <<200, 0>> >>,
                               << <<200, 0>>, <<400, 0>> >>,
                               << <<3, 0>> >> >>] >>
\* Two LineStrings: a segment, and a path from its end back to its start.
Net3 == << [type |-> "LineString",
            coordinates |-> << <<0, 0>>, <<200, 0>> >>],
           [type |-> "LineString",
            coordinates |-> << <<200, 0>>, <<200, 200>>, <<0, 0>> >>] >>
\* the networks and the pointer positions of SpecMoves
LoadedGraphs == {Net1, Net2, Net3}
DragPoints == {<<100, 0>>, <<300, 100>>}

-----------------------------------------------------------------------------
(* parseNetwork *)

\* Number.prototype.toFixed(6) of a non-negative coordinate: the nearest
\* multiple of 1e-6, the larger one on a tie.
toFixed6(v) == (v + 5) \div 10

\* const key = `${lng.toFixed(6)},${lat.toFixed(6)}`
KeyOf(lng, lat) == <<toFixed6(lng), toFixed6(lat)>>

\* a getNode that never reuses a node: every vertex gets an id of its own
RECURSIVE getNodesNoReuse(_, _, _)
getNodesNoReuse(st, ring, i) ==
  IF i > Len(ring) THEN st
  ELSE LET lng == ring[i][1]
           lat == ring[i][2]
       IN getNodesNoReuse([byKey |-> MapSet(st.byKey, KeyOf(lng, lat),
                                            [id |-> NodeId(st.nc), lng |-> lng, lat |-> lat]),
                           nc |-> st.nc + 1,
                           ids |-> Append(st.ids, NodeId(st.nc))], ring, i + 1)

\* getNode for the vertices i.. of a ring: st = [byKey, nc, ids]
RECURSIVE getNodes(_, _, _)
getNodes(st, ring, i) ==
  IF i > Len(ring) THEN st
  ELSE LET lng == ring[i][1]
           lat == ring[i][2]
           key == KeyOf(lng, lat)
           fresh == key \notin DOMAIN st.byKey
           byKey == IF fresh
                      THEN MapSet(st.byKey, key, [id |-> NodeId(st.nc), lng |-> lng, lat |-> lat])
                      ELSE st.byKey
       IN getNodes([byKey |-> byKey,
                    nc |-> IF fresh THEN st.nc + 1 ELSE st.nc,
                    ids |-> Append(st.ids, byKey[key].id)], ring, i + 1)

\* the rings of a feature
RingsOf(f) == IF f.type = "LineString" THEN <<f.coordinates>> ELSE f.coordinates

RECURSIVE AllRings(_)
AllRings(features) ==
  IF features = <<>> THEN <<>> ELSE RingsOf(Head(features)) \o AllRings(Tail(features))

\* for (const nid of nodeIds) { ...nodeEdgeIndex.get(nid).add(id) }
IndexAdd(index, nodeIds, edgeId) ==
  [n \in DOMAIN index \cup Range(nodeIds) |->
     IF n \in Range(nodeIds)
       THEN (IF n \in DOMAIN index THEN index[n] ELSE {}) \cup {edgeId}
       ELSE index[n]]

\* the loop over the rings from ring r on: st = [byKey, nc, ec, edges, index]
RECURSIVE parseRings(_, _, _)
parseRings(st, rings, r) ==
  IF r > Len(rings) THEN st
  ELSE LET g == getNodes([byKey |-> st.byKey, nc |-> st.nc, ids |-> <<>>], rings[r], 1)
           id == EdgeId(st.ec)
       IN IF Len(g.ids) < 2
            THEN parseRings([st EXCEPT !.byKey = g.byKey, !.nc = g.nc], rings, r + 1)
            ELSE parseRings([byKey |-> g.byKey, nc |-> g.nc, ec |-> st.ec + 1,
                             edges |-> MapSet(st.edges, id, g.ids),
                             index |-> IndexAdd(st.index, g.ids, id)], rings, r + 1)

parseNetwork(geojson) ==
  LET st == parseRings([byKey |-> EmptyMap, nc |-> 0, ec |-> 0,
                        edges |-> EmptyMap, index |-> EmptyMap], AllRings(geojson), 1)
      byId == {st.byKey[k] : k \in DOMAIN st.byKey}
  IN [nodes |-> [id \in {n.id : n \in byId} |->
                   LET n == CHOOSE m \in byId : m.id = id
                   IN [lng |-> n.lng, lat |-> n.lat]],
      edges |-> st.edges,
      nodeEdgeIndex |-> st.index]

-----------------------------------------------------------------------------
(* buildCaches *)

\* e.nodeIds.map((id) => nodes.get(id)).filter(Boolean).map((n) => [n.lng, n.lat])
EdgeCoords(nodeIds, nodes) ==
  LET found == SelectSeq(nodeIds, LAMBDA id : id \in DOMAIN nodes)
  IN [i \in 1..Len(found) |-> <<nodes[found[i]].lng, nodes[found[i]].lat>>]

\* the values of a Map, as an array
RECURSIVE KeysSeq(_)
KeysSeq(S) == IF S = {} THEN <<>>
              ELSE LET k == CHOOSE x \in S : TRUE IN <<k>> \o KeysSeq(S \ {k})

\* the position of the first feature with this id, 0 for findIndex's -1
FindIndex(features, id) ==
  IF \E i \in DOMAIN features : features[i].id = id
    THEN CHOOSE i \in DOMAIN features :
           features[i].id = id /\ \A j \in 1..(i - 1) : features[j].id # id
    ELSE 0

buildCaches(net) ==
  LET nodeKeys == KeysSeq(DOMAIN net.nodes)
      nodeFC == [i \in 1..Len(nodeKeys) |->
                   [id |-> nodeKeys[i],
                    coords |-> <<net.nodes[nodeKeys[i]].lng, net.nodes[nodeKeys[i]].lat>>]]
      edgeKeys == SelectSeq(KeysSeq(DOMAIN net.edges),
                            LAMBDA e : Len(EdgeCoords(net.edges[e], net.nodes)) >= 2)
      edgeFC == [i \in 1..Len(edgeKeys) |->
                   [id |-> edgeKeys[i],
                    coords |-> EdgeCoords(net.edges[edgeKeys[i]], net.nodes)]]
  IN [null |-> FALSE,
      nodeFC |-> nodeFC,
      edgeFC |-> edgeFC,
      nodeFeatMap |-> [id \in DOMAIN net.nodes |-> FindIndex(nodeFC, id)],
      edgeFeatMap |-> [id \in Range(edgeKeys) |-> FindIndex(edgeFC, id)]]

-----------------------------------------------------------------------------
(* closestSegmentIdx *)

\* 4 * d of line 94: the squared distance from (lng, lat) to the midpoint of
\* a-b, scaled by 4 so that the halves stay integers (the order is kept).
MidDist4(a, b, lng, lat) ==
  (a.lng + b.lng - 2 * lng) * (a.lng + b.lng - 2 * lng)
    + (a.lat + b.lat - 2 * lat) * (a.lat + b.lat - 2 * lat)

\* a loop that takes a segment when it is as near as the best so far (d <= bestD)
RECURSIVE closestLoopLast(_, _, _, _, _, _, _)
closestLoopLast(nodeIds, nodes, lng, lat, i, best, bestD) ==
  IF i >= Len(nodeIds) - 1 THEN best
  ELSE LET aId == nodeIds[i + 1]
           bId == nodeIds[i + 2]
       IN IF aId \notin DOMAIN nodes \/ bId \notin DOMAIN nodes
            THEN closestLoopLast(nodeIds, nodes, lng, lat, i + 1, best, bestD)
            ELSE LET d == MidDist4(nodes[aId], nodes[bId], lng, lat)
                 IN IF bestD = -1 \/ d <= bestD
                      THEN closestLoopLast(nodeIds, nodes, lng, lat, i + 1, i, d)
                      ELSE closestLoopLast(nodeIds, nodes, lng, lat, i + 1, best, bestD)

\* the loop from i on (0-based, as in the code); bestD = -1 stands for Infinity
RECURSIVE closestLoop(_, _, _, _, _, _, _)
closestLoop(nodeIds, nodes, lng, lat, i, best, bestD) ==
  IF i >= Len(nodeIds) - 1 THEN best
  ELSE LET aId == nodeIds[i + 1]
           bId == nodeIds[i + 2]
       IN IF aId \notin DOMAIN nodes \/ bId \notin DOMAIN nodes
            THEN closestLoop(nodeIds, nodes, lng, lat, i + 1, best, bestD)
            ELSE LET d == MidDist4(nodes[aId], nodes[bId], lng, lat)
                 IN IF bestD = -1 \/ d < bestD
                      THEN closestLoop(nodeIds, nodes, lng, lat, i + 1, i, d)
                      ELSE closestLoop(nodeIds, nodes, lng, lat, i + 1, best, bestD)

closestSegmentIdx(nodeIds, nodes, lng, lat) ==
  closestLoop(nodeIds, nodes, lng, lat, 0, 0, -1)

-----------------------------------------------------------------------------
(* The in-place updates of the cached features *)

\* a write of the new coordinates to the first point feature of the collection
SetNodeFeatFirst(cache, nodeId, lng, lat) ==
  IF nodeId \in DOMAIN cache.nodeFeatMap
    THEN [cache EXCEPT !.nodeFC[1].coords = <<lng, lat>>]
    ELSE cache

\* nodeFeat.geometry.coordinates = [lng, lat], when nodeFeatMap has the node
SetNodeFeat(cache, nodeId, lng, lat) ==
  IF nodeId \in DOMAIN cache.nodeFeatMap
    THEN [cache EXCEPT !.nodeFC[cache.nodeFeatMap[nodeId]].coords = <<lng, lat>>]
    ELSE cache

\* nodeEdgeIndex.get(nodeId) ?? new Set()
Connected(net, nodeId) ==
  IF nodeId \in DOMAIN net.nodeEdgeIndex THEN net.nodeEdgeIndex[nodeId] ELSE {}

\* for (const eid of connectedEdgeIds) { if (!edge || !feat) continue; feat.geometry.coordinates = ... }
RefreshEdges(cache, net, nodeId) ==
  LET touched(i) == LET eid == cache.edgeFC[i].id
                    IN /\ eid \in Connected(net, nodeId)
                       /\ eid \in DOMAIN net.edges
                       /\ eid \in DOMAIN cache.edgeFeatMap
                       /\ cache.edgeFeatMap[eid] = i
  IN [cache EXCEPT !.edgeFC =
        [i \in DOMAIN cache.edgeFC |->
           IF touched(i)
             THEN [id |-> cache.edgeFC[i].id,
                   coords |-> EdgeCoords(net.edges[cache.edgeFC[i].id], net.nodes)]
             ELSE cache.edgeFC[i]]]

\* a move that also forgets the moved node's adjacency entry
MoveNetDropEntry(net, nodeId, lng, lat) ==
  [net EXCEPT !.nodes[nodeId] = [lng |-> lng, lat |-> lat],
              !.nodeEdgeIndex = MapDelete(net.nodeEdgeIndex, nodeId)]

\* node.lng = lng; node.lat = lat
MoveNet(net, nodeId, lng, lat) ==
  [net EXCEPT !.nodes[nodeId] = [lng |-> lng, lat |-> lat]]

\* a move that leaves the features of the connected edges as they are
MoveCacheNodeOnly(cache, net, nodeId, lng, lat) == SetNodeFeat(cache, nodeId, lng, lat)

\* steps 2 and 3 of onMouseMove, on the store as already mutated
MoveCache(cache, net, nodeId, lng, lat) ==
  RefreshEdges(SetNodeFeat(cache, nodeId, lng, lat), net, nodeId)

\* features.splice(i, 1), and the positions the feature Map refers to
SpliceFeatures(features, i) ==
  [j \in 1..(Len(features) - 1) |-> IF j < i THEN features[j] ELSE features[j + 1]]

SpliceMap(map, i) == [k \in DOMAIN map |-> IF map[k] > i THEN map[k] - 1 ELSE map[k]]

\* const i = edgeFC.features.findIndex(...); if (i !== -1) edgeFC.features.splice(i, 1)
RemoveEdgeFeature(cache, edgeId) ==
  LET i == FindIndex(cache.edgeFC, edgeId)
  IN IF i = 0 THEN cache
     ELSE [cache EXCEPT !.edgeFC = SpliceFeatures(cache.edgeFC, i),
                        !.edgeFeatMap = SpliceMap(cache.edgeFeatMap, i)]

RemoveNodeFeature(cache, nodeId) ==
  LET i == FindIndex(cache.nodeFC, nodeId)
  IN IF i = 0 THEN cache
     ELSE [cache EXCEPT !.nodeFC = SpliceFeatures(cache.nodeFC, i),
                        !.nodeFeatMap = SpliceMap(cache.nodeFeatMap, i)]

\* edgeFeatMap.set(id, f); edgeFC.features.push(f)
PushEdgeFeature(cache, edgeId, coords) ==
  [cache EXCEPT !.edgeFC = Append(cache.edgeFC, [id |-> edgeId, coords |-> coords]),
                !.edgeFeatMap = MapSet(cache.edgeFeatMap, edgeId, Len(cache.edgeFC) + 1)]

\* nodeFeatMap.set(id, f); nodeFC.features.push(f)
PushNodeFeature(cache, nodeId, lng, lat) ==
  [cache EXCEPT !.nodeFC = Append(cache.nodeFC, [id |-> nodeId, coords |-> <<lng, lat>>]),
                !.nodeFeatMap = MapSet(cache.nodeFeatMap, nodeId, Len(cache.nodeFC) + 1)]

-----------------------------------------------------------------------------
(* onMouseUp: drag-to-connect *)

\* a hit-test that takes the first hit, the dragged node included
TargetOfFirstHit(hits, nodeId) == IF hits = <<>> THEN NoId ELSE Head(hits)

\* the first hit that is not the dragged node, NoId when there is none
TargetOf(hits, nodeId) ==
  LET others == SelectSeq(hits, LAMBDA h : h # nodeId)
  IN IF others = <<>> THEN NoId ELSE Head(others)

\* lines 194-197: the node goes back to its original position
SnapBackNet(net, drag) ==
  IF drag.nodeId \in DOMAIN net.nodes
    THEN MoveNet(net, drag.nodeId, drag.origLng, drag.origLat)
    ELSE net

\* lines 198-211, on the store as already mutated
SnapBackCache(cache, net, drag) ==
  IF drag.nodeId \in DOMAIN net.nodes
    THEN MoveCache(cache, net, drag.nodeId, drag.origLng, drag.origLat)
    ELSE cache

\* lines 215-222: the new edge and its two adjacency entries
ConnectNet(net, fromId, toId, ts) ==
  [net EXCEPT !.edges = MapSet(net.edges, ConnEdgeId(ts), <<fromId, toId>>),
              !.nodeEdgeIndex = IndexAdd(net.nodeEdgeIndex, <<fromId, toId>>, ConnEdgeId(ts))]

\* lines 223-229, on the store as already mutated
ConnectCache(cache, net, fromId, toId, ts) ==
  PushEdgeFeature(cache, ConnEdgeId(ts), EdgeCoords(<<fromId, toId>>, net.nodes))

-----------------------------------------------------------------------------
(* splitEdge *)

\* an eB that starts one id too late: [newNodeId, ...edge.nodeIds.slice(idx + 2)]
SplitBShort(nodeIds, idx, newNodeId) == <<newNodeId>> \o SubSeq(nodeIds, idx + 3, Len(nodeIds))

\* eA.nodeIds and eB.nodeIds
SplitA(nodeIds, idx, newNodeId) == Append(SubSeq(nodeIds, 1, idx + 1), newNodeId)
SplitB(nodeIds, idx, newNodeId) == <<newNodeId>> \o SubSeq(nodeIds, idx + 2, Len(nodeIds))

\* lines 385-392: the adjacency index after the split
SplitIndex(index, nodeIds, edgeId, newNodeId, eA, eB, ts) ==
  LET dropped == [n \in DOMAIN index |->
                    IF n \in Range(nodeIds) THEN index[n] \ {edgeId} ELSE index[n]]
      withNew == MapSet(dropped, newNodeId, {SplitEdgeIdA(ts), SplitEdgeIdB(ts)})
  IN IndexAdd(IndexAdd(withNew, eA, SplitEdgeIdA(ts)), eB, SplitEdgeIdB(ts))

\* a split that puts the new node on the first node of the chosen segment
SplitNetSnapped(net, edgeId, lng, lat, ts) ==
  LET nodeIds == net.edges[edgeId]
      idx == closestSegmentIdx(nodeIds, net.nodes, lng, lat)
      newNodeId == SplitNodeId(ts)
      eA == SplitA(nodeIds, idx, newNodeId)
      eB == SplitB(nodeIds, idx, newNodeId)
      at == IF nodeIds[idx + 1] \in DOMAIN net.nodes
              THEN net.nodes[nodeIds[idx + 1]]
              ELSE [lng |-> lng, lat |-> lat]
  IN [nodes |-> MapSet(net.nodes, newNodeId, at),
      edges |-> MapSet(MapSet(MapDelete(net.edges, edgeId), SplitEdgeIdA(ts), eA),
                       SplitEdgeIdB(ts), eB),
      nodeEdgeIndex |-> SplitIndex(net.nodeEdgeIndex, nodeIds, edgeId, newNodeId, eA, eB, ts)]

\* lines 366-392, for an edge that exists
SplitNet(net, edgeId, lng, lat, ts) ==
  LET nodeIds == net.edges[edgeId]
      idx == closestSegmentIdx(nodeIds, net.nodes, lng, lat)
      newNodeId == SplitNodeId(ts)
      eA == SplitA(nodeIds, idx, newNodeId)
      eB == SplitB(nodeIds, idx, newNodeId)
  IN [nodes |-> MapSet(net.nodes, newNodeId, [lng |-> lng, lat |-> lat]),
      edges |-> MapSet(MapSet(MapDelete(net.edges, edgeId), SplitEdgeIdA(ts), eA),
                       SplitEdgeIdB(ts), eB),
      nodeEdgeIndex |-> SplitIndex(net.nodeEdgeIndex, nodeIds, edgeId, newNodeId, eA, eB, ts)]

\* lines 373-375 and 395-404; net is the store after SplitNet
SplitCache(cache, net, edgeId, lng, lat, ts) ==
  LET c1 == PushNodeFeature(cache, SplitNodeId(ts), lng, lat)
      c2 == RemoveEdgeFeature(c1, edgeId)
      c3 == [c2 EXCEPT !.edgeFeatMap = MapDelete(c2.edgeFeatMap, edgeId)]
      c4 == PushEdgeFeature(c3, SplitEdgeIdA(ts),
                            EdgeCoords(net.edges[SplitEdgeIdA(ts)], net.nodes))
  IN PushEdgeFeature(c4, SplitEdgeIdB(ts),
                     EdgeCoords(net.edges[SplitEdgeIdB(ts)], net.nodes))

-----------------------------------------------------------------------------
(* deleteNode *)

\* lines 420-435
DeleteNet(net, nodeId) ==
  LET connectedEdgeIds == Connected(net, nodeId)
      cleaned == [n \in DOMAIN net.nodeEdgeIndex |-> net.nodeEdgeIndex[n] \ connectedEdgeIds]
  IN [nodes |-> MapDelete(net.nodes, nodeId),
      edges |-> [e \in DOMAIN net.edges \ connectedEdgeIds |-> net.edges[e]],
      nodeEdgeIndex |-> MapDelete(cleaned, nodeId)]

\* lines 421-426, for the edge ids of S
RECURSIVE DropEdgeFeatures(_, _)
DropEdgeFeatures(cache, S) ==
  IF S = {} THEN cache
  ELSE LET eid == CHOOSE x \in S : TRUE
           c1 == [cache EXCEPT !.edgeFeatMap = MapDelete(cache.edgeFeatMap, eid)]
       IN DropEdgeFeatures(RemoveEdgeFeature(c1, eid), S \ {eid})

\* lines 421-426 and 436-438; net is the store before the deletion
DeleteCache(cache, net, nodeId) ==
  LET c1 == DropEdgeFeatures(cache, Connected(net, nodeId))
      c2 == [c1 EXCEPT !.nodeFeatMap = MapDelete(c1.nodeFeatMap, nodeId)]
  IN RemoveNodeFeature(c2, nodeId)

-----------------------------------------------------------------------------
(* useNetworkData: the values and the consumers *)

\* the consumers are 1..MaxConsumers
MaxConsumers == 3
Consumers == 1..MaxConsumers

\* null, undefined and a FeatureCollection, as values of cachedData and data
Null == [kind |-> "null", features |-> <<>>]
Undefined == [kind |-> "undefined", features |-> <<>>]
FeatureCollection(features) == [kind |-> "fc", features |-> features]
\* if (cachedData)
Truthy(v) == v.kind = "fc"

\* let loadingPromise = null
NoPromise == [state |-> "none", value |-> Null]

\* what shp() resolves to: one FeatureCollection, an array of one, an empty array
ShpResults == {[isArray |-> FALSE, items |-> <<Net1>>],
               [isArray |-> TRUE, items |-> <<Net1>>],
               [isArray |-> TRUE, items |-> <<>>]}

\* const fc = Array.isArray(geojson) ? geojson[0] : geojson
FirstCollection(geojson) ==
  IF geojson.isArray /\ geojson.items = <<>>
    THEN Undefined
    ELSE FeatureCollection(geojson.items[1])

-----------------------------------------------------------------------------
(* The state machine *)

EmptyNet == [nodes |-> EmptyMap, edges |-> EmptyMap, nodeEdgeIndex |-> EmptyMap]
EmptyCache == [null |-> TRUE, nodeFC |-> <<>>, edgeFC |-> <<>>,
               nodeFeatMap |-> EmptyMap, edgeFeatMap |-> EmptyMap]
\* { type: "FeatureCollection", features: [] }
EmptySrc == [nodes |-> <<>>, edges |-> <<>>]
NothingRendered == [nodes |-> {}, edges |-> {}]

\* the effect of useNetwork runs once per mount: the runs are 1..MaxMounts
MaxMounts == 3
Runs == 1..MaxMounts

\* useNetwork.js before the first mount: the map has no network source or layer,
\* added.current is false, no effect has run
NoNetwork == [styleLoaded |-> FALSE, source |-> FALSE, layer |-> FALSE, added |-> FALSE,
              runs |-> [r \in Runs |-> [pc |-> "none", cancelled |-> FALSE, adds |-> 0]]]

Init ==
  /\ netRef = EmptyNet
  /\ cacheRef = EmptyCache
  /\ draggingRef = NoDrag
  /\ hoveredNodeRef = NoId
  /\ contextMenu = NoMenu
  /\ addedRef = FALSE
  /\ phase = "unmounted"
  /\ styleLoaded = FALSE
  /\ loadPending = FALSE
  /\ dragPan = TRUE
  /\ src = EmptySrc
  /\ rendered = NothingRendered
  /\ now = 0
  /\ threw = FALSE
  /\ edits = 0
  /\ cachedData = Null
  /\ loadingPromise = NoPromise
  /\ shpCalls = 0
  /\ consumers = [c \in Consumers |-> [pc |-> "unmounted", data |-> Null]]
  /\ network = NoNetwork

\* map.getSource(NODE_SOURCE)?.setData(nodeFC); map.getSource(EDGE_SOURCE)?.setData(edgeFC)
SetData(cache) ==
  IF addedRef THEN src' = [nodes |-> cache.nodeFC, edges |-> cache.edgeFC]
  ELSE UNCHANGED src

\* an init that always gives the sources the empty collection
initEmpty(cancelled) ==
  IF cancelled \/ addedRef
    THEN UNCHANGED <<addedRef, src>>
    ELSE /\ src' = EmptySrc
         /\ addedRef' = TRUE

\* init: the two sources, the three layers and the ten handlers
init(cancelled) ==
  IF cancelled \/ addedRef
    THEN UNCHANGED <<addedRef, src>>
    ELSE /\ src' = [nodes |-> cacheRef.nodeFC, edges |-> cacheRef.edgeFC]
         /\ addedRef' = TRUE

\* the mount effect: if (map.isStyleLoaded()) init(); else map.once("load", init)
Mount ==
  /\ phase = "unmounted"
  /\ phase' = "mounted"
  /\ IF styleLoaded THEN init(FALSE) /\ UNCHANGED loadPending
     ELSE loadPending' = TRUE /\ UNCHANGED <<addedRef, src>>
  /\ UNCHANGED <<netRef, cacheRef, draggingRef, hoveredNodeRef, contextMenu, styleLoaded,
                 dragPan, rendered, now, threw, edits>>
  /\ UNCHANGED loaderVars

\* the map's "load" event
StyleLoad ==
  /\ ~styleLoaded
  /\ styleLoaded' = TRUE
  /\ IF loadPending THEN init(phase = "cleaned") /\ loadPending' = FALSE
     ELSE UNCHANGED <<addedRef, src, loadPending>>
  /\ UNCHANGED <<netRef, cacheRef, draggingRef, hoveredNodeRef, contextMenu, phase,
                 dragPan, rendered, now, threw, edits>>
  /\ UNCHANGED loaderVars

\* a cleanup that stops at line 339: no listener, layer or source is removed
CleanupNoRemove ==
  /\ phase = "mounted"
  /\ phase' = "cleaned"
  /\ draggingRef' = NoDrag
  /\ UNCHANGED <<loadPending, addedRef, src, rendered>>
  /\ UNCHANGED <<netRef, cacheRef, hoveredNodeRef, contextMenu, styleLoaded, dragPan,
                 now, threw, edits>>
  /\ UNCHANGED loaderVars

\* the mount effect's cleanup
Cleanup ==
  /\ phase = "mounted"
  /\ phase' = "cleaned"
  /\ draggingRef' = NoDrag
  /\ loadPending' = FALSE
  /\ addedRef' = FALSE
  /\ src' = EmptySrc
  /\ rendered' = NothingRendered
  /\ UNCHANGED <<netRef, cacheRef, hoveredNodeRef, contextMenu, styleLoaded, dragPan,
                 now, threw, edits>>
  /\ UNCHANGED loaderVars

\* the data effect: rebuild(mapRef.current, networkData)
rebuild(geojson) ==
  /\ phase # "cleaned"
  /\ netRef' = parseNetwork(geojson)
  /\ cacheRef' = buildCaches(netRef')
  /\ SetData(cacheRef')
  /\ edits' = 0
  /\ UNCHANGED <<draggingRef, hoveredNodeRef, contextMenu, addedRef, phase, styleLoaded,
                 loadPending, dragPan, rendered, now, threw>>
  /\ UNCHANGED loaderVars

\* the ids of the features of the sources' data
IdsOf(data) == [nodes |-> {f.id : f \in Range(data.nodes)},
                edges |-> {f.id : f \in Range(data.edges)}]

\* the map's worker has tiled the sources' data: the rendered features are those of src
Render ==
  /\ addedRef
  /\ rendered # IdsOf(src)
  /\ rendered' = IdsOf(src)
  /\ UNCHANGED <<netRef, cacheRef, draggingRef, hoveredNodeRef, contextMenu, addedRef, phase,
                 styleLoaded, loadPending, dragPan, src, now, threw, edits>>
  /\ UNCHANGED loaderVars

\* a mouse-down handler without the button test of line 170
onNodeMouseDownAnyButton(button, nodeId) ==
  /\ addedRef
  /\ IF nodeId \in DOMAIN netRef.nodes
       THEN /\ draggingRef' = [nodeId |-> nodeId,
                               origLng |-> netRef.nodes[nodeId].lng,
                               origLat |-> netRef.nodes[nodeId].lat]
            /\ dragPan' = FALSE
       ELSE UNCHANGED <<draggingRef, dragPan>>
  /\ UNCHANGED <<netRef, cacheRef, hoveredNodeRef, contextMenu, addedRef, phase, styleLoaded,
                 loadPending, src, rendered, now, threw, edits>>
  /\ UNCHANGED loaderVars

onNodeMouseDown(button, nodeId) ==
  /\ addedRef
  /\ IF button = 0 /\ nodeId \in DOMAIN netRef.nodes
       THEN /\ draggingRef' = [nodeId |-> nodeId,
                               origLng |-> netRef.nodes[nodeId].lng,
                               origLat |-> netRef.nodes[nodeId].lat]
            /\ dragPan' = FALSE
       ELSE UNCHANGED <<draggingRef, dragPan>>
  /\ UNCHANGED <<netRef, cacheRef, hoveredNodeRef, contextMenu, addedRef, phase, styleLoaded,
                 loadPending, src, rendered, now, threw, edits>>
  /\ UNCHANGED loaderVars

onMouseMove(p) ==
  /\ addedRef
  /\ IF draggingRef # NoDrag /\ draggingRef.nodeId \in DOMAIN netRef.nodes
       THEN /\ netRef' = MoveNet(netRef, draggingRef.nodeId, p[1], p[2])
            /\ cacheRef' = MoveCache(cacheRef, netRef', draggingRef.nodeId, p[1], p[2])
            /\ SetData(cacheRef')
       ELSE UNCHANGED <<netRef, cacheRef, src>>
  /\ UNCHANGED <<draggingRef, hoveredNodeRef, contextMenu, addedRef, phase, styleLoaded,
                 loadPending, dragPan, rendered, now, threw, edits>>
  /\ UNCHANGED loaderVars

\* hits: the result of the hit-test at the pointer; ts: what Date.now() returns
onMouseUp(hits, ts) ==
  /\ addedRef
  /\ LET target == TargetOf(hits, draggingRef.nodeId)
         net1 == SnapBackNet(netRef, draggingRef)
         net2 == ConnectNet(net1, draggingRef.nodeId, target, ts)
         cache1 == SnapBackCache(cacheRef, net1, draggingRef)
         cache2 == ConnectCache(cache1, net2, draggingRef.nodeId, target, ts)
     IN IF draggingRef = NoDrag
          THEN /\ UNCHANGED <<netRef, cacheRef, draggingRef, dragPan, src, now, edits>>
          ELSE /\ dragPan' = TRUE
               /\ draggingRef' = NoDrag
               /\ IF target # NoId
                    THEN /\ ts >= now
                         /\ now' = ts
                         /\ edits' = edits + 1
                         /\ netRef' = net2
                         /\ cacheRef' = cache2
                    ELSE UNCHANGED <<netRef, cacheRef, now, edits>>
               /\ SetData(cacheRef')
  /\ UNCHANGED <<hoveredNodeRef, contextMenu, addedRef, phase, styleLoaded, loadPending,
                 rendered, threw>>
  /\ UNCHANGED loaderVars

onEdgeContextMenu(edgeId, p) ==
  /\ addedRef
  /\ contextMenu' = [type |-> "edge", id |-> edgeId, lng |-> p[1], lat |-> p[2]]
  /\ UNCHANGED <<netRef, cacheRef, draggingRef, hoveredNodeRef, addedRef, phase, styleLoaded,
                 loadPending, dragPan, src, rendered, now, threw, edits>>
  /\ UNCHANGED loaderVars

onNodeContextMenu(nodeId) ==
  /\ addedRef
  /\ IF draggingRef # NoDrag THEN UNCHANGED contextMenu
     ELSE contextMenu' = [type |-> "node", id |-> nodeId, lng |-> 0, lat |-> 0]
  /\ UNCHANGED <<netRef, cacheRef, draggingRef, hoveredNodeRef, addedRef, phase, styleLoaded,
                 loadPending, dragPan, src, rendered, now, threw, edits>>
  /\ UNCHANGED loaderVars

\* a map click that carries out the deletion an open node menu offers
onMapClickDeleting ==
  /\ addedRef
  /\ contextMenu' = NoMenu
  /\ netRef' = IF contextMenu.type = "node" THEN DeleteNet(netRef, contextMenu.id) ELSE netRef
  /\ UNCHANGED <<cacheRef, draggingRef, hoveredNodeRef, addedRef, phase, styleLoaded,
                 loadPending, dragPan, src, rendered, now, threw, edits>>
  /\ UNCHANGED loaderVars

onMapClick ==
  /\ addedRef
  /\ contextMenu' = NoMenu
  /\ UNCHANGED <<netRef, cacheRef, draggingRef, hoveredNodeRef, addedRef, phase, styleLoaded,
                 loadPending, dragPan, src, rendered, now, threw, edits>>
  /\ UNCHANGED loaderVars

onNodeEnter(nodeId) ==
  /\ addedRef
  /\ IF draggingRef # NoDrag THEN UNCHANGED hoveredNodeRef ELSE hoveredNodeRef' = nodeId
  /\ UNCHANGED <<netRef, cacheRef, draggingRef, contextMenu, addedRef, phase, styleLoaded,
                 loadPending, dragPan, src, rendered, now, threw, edits>>
  /\ UNCHANGED loaderVars

onNodeLeave ==
  /\ addedRef
  /\ IF draggingRef # NoDrag THEN UNCHANGED hoveredNodeRef ELSE hoveredNodeRef' = NoId
  /\ UNCHANGED <<netRef, cacheRef, draggingRef, contextMenu, addedRef, phase, styleLoaded,
                 loadPending, dragPan, src, rendered, now, threw, edits>>
  /\ UNCHANGED loaderVars

\* a splitEdge without the early return of line 364: the new node is added
\* and the menu closed for an edge that does not exist
splitEdgeUnguarded(edgeId, lng, lat, ts) ==
  /\ ts >= now
  /\ now' = ts
  /\ edits' = edits + 1
  /\ netRef' = IF edgeId \in DOMAIN netRef.edges
                 THEN SplitNet(netRef, edgeId, lng, lat, ts)
                 ELSE [netRef EXCEPT !.nodes = MapSet(netRef.nodes, SplitNodeId(ts),
                                                      [lng |-> lng, lat |-> lat])]
  /\ cacheRef' = IF edgeId \in DOMAIN netRef.edges
                   THEN SplitCache(cacheRef, netRef', edgeId, lng, lat, ts)
                   ELSE PushNodeFeature(cacheRef, SplitNodeId(ts), lng, lat)
  /\ SetData(cacheRef')
  /\ contextMenu' = NoMenu
  /\ UNCHANGED <<draggingRef, hoveredNodeRef, addedRef, phase, styleLoaded, loadPending,
                 dragPan, rendered, threw>>
  /\ UNCHANGED loaderVars

\* splitEdge(edgeId, lng, lat); ts: what Date.now() returns
splitEdge(edgeId, lng, lat, ts) ==
  /\ IF edgeId \notin DOMAIN netRef.edges
       THEN UNCHANGED <<netRef, cacheRef, src, contextMenu, now, edits>>
       ELSE /\ ts >= now
            /\ now' = ts
            /\ edits' = edits + 1
            /\ netRef' = SplitNet(netRef, edgeId, lng, lat, ts)
            /\ cacheRef' = SplitCache(cacheRef, netRef', edgeId, lng, lat, ts)
            /\ SetData(cacheRef')
            /\ contextMenu' = NoMenu
  /\ UNCHANGED <<draggingRef, hoveredNodeRef, addedRef, phase, styleLoaded, loadPending,
                 dragPan, rendered, threw>>
  /\ UNCHANGED loaderVars

\* deleteNode(nodeId); cacheRef.current holds null collections only before the
\* first rebuild, when the store is empty: line 437 then raises a TypeError
deleteNode(nodeId) ==
  /\ IF cacheRef.null
       THEN /\ threw' = TRUE
            /\ UNCHANGED <<netRef, cacheRef, src, contextMenu, edits>>
       ELSE /\ edits' = edits + 1
            /\ netRef' = DeleteNet(netRef, nodeId)
            /\ cacheRef' = DeleteCache(cacheRef, netRef, nodeId)
            /\ SetData(cacheRef')
            /\ contextMenu' = NoMenu
            /\ UNCHANGED threw
  /\ UNCHANGED <<draggingRef, hoveredNodeRef, addedRef, phase, styleLoaded, loadPending,
                 dragPan, rendered, now>>
  /\ UNCHANGED loaderVars

\* the menu's "Split edge" button
MenuSplit(ts) ==
  /\ phase = "mounted"
  /\ contextMenu.type = "edge"
  /\ splitEdge(contextMenu.id, contextMenu.lng, contextMenu.lat, ts)

\* the menu's "Delete node" button (the menu shows it for every type but "edge")
MenuDelete ==
  /\ phase = "mounted"
  /\ contextMenu.type = "node"
  /\ deleteNode(contextMenu.id)

\* the menu's "Cancel" button
MenuCancel ==
  /\ phase = "mounted"
  /\ contextMenu # NoMenu
  /\ contextMenu' = NoMenu
  /\ UNCHANGED <<netRef, cacheRef, draggingRef, hoveredNodeRef, addedRef, phase, styleLoaded,
                 loadPending, dragPan, src, rendered, now, threw, edits>>
  /\ UNCHANGED loaderVars

\* the results a hit-test on the node layer can give: the rendered nodes under the pointer
RECURSIVE HitLists(_, _)
HitLists(S, n) ==
  IF n = 0 THEN {<<>>}
  ELSE LET shorter == HitLists(S, n - 1)
       IN shorter \cup {Append(h, x) : h \in shorter, x \in S}

Hits(n) == {h \in HitLists(rendered.nodes, n) :
             \A i, j \in DOMAIN h : i # j => h[i] # h[j]}

\* the readings Date.now() can give: the last one or a later one
Readings == {ts \in 0..MaxClock : ts >= now}

Next ==
  \/ Mount
  \/ StyleLoad
  \/ Cleanup
  \/ \E g \in Networks : rebuild(g)
  \/ Render
  \/ \E b \in Buttons, n \in rendered.nodes : onNodeMouseDown(b, n)
  \/ \E p \in MovePoints : onMouseMove(p)
  \/ \E h \in Hits(MaxHits), ts \in Readings : onMouseUp(h, ts) /\ edits' <= MaxEdits
  \/ \E e \in rendered.edges, p \in MenuPoints : onEdgeContextMenu(e, p)
  \/ \E n \in rendered.nodes : onNodeContextMenu(n)
  \/ onMapClick
  \/ \E ts \in Readings : MenuSplit(ts) /\ edits' <= MaxEdits
  \/ MenuDelete /\ edits' <= MaxEdits
  \/ MenuCancel

Spec == Init /\ [][Next]_vars

\* The editor within one reading of the clock (Date.now() has a resolution of a
\* millisecond or coarser, and events can be synthetic): the pointer is pressed and
\* released without a move between, the right-clicks on edges are at one place, no
\* menu is opened during a drag and no drag started under a menu, and the component
\* stays mounted with the network it loaded first.  More edits are within reach.
NextStill ==
  \/ Mount
  \/ StyleLoad
  \/ \E g \in Networks : cacheRef.null /\ rebuild(g)
  \/ Render
  \/ \E n \in rendered.nodes : contextMenu = NoMenu /\ onNodeMouseDown(0, n)
  \/ \E h \in Hits(1), ts \in {now} : onMouseUp(h, ts) /\ edits' <= MaxStillEdits
  \/ \E e \in rendered.edges, p \in StillPoints : draggingRef = NoDrag /\ onEdgeContextMenu(e, p)
  \/ \E n \in rendered.nodes : draggingRef = NoDrag /\ onNodeContextMenu(n)
  \/ \E ts \in {now} : MenuSplit(ts) /\ edits' <= MaxStillEdits
  \/ MenuDelete /\ edits' <= MaxStillEdits
  \/ MenuCancel

SpecStill == Init /\ [][NextStill]_vars

\* The editor while nothing but the positions is edited: networks are loaded and
\* nodes are dragged and released over empty space or over themselves.
NextMoves ==
  \/ Mount
  \/ StyleLoad
  \/ \E g \in LoadedGraphs : rebuild(g)
  \/ Render
  \/ \E n \in rendered.nodes : onNodeMouseDown(0, n)
  \/ \E p \in DragPoints : onMouseMove(p)
  \/ \E h \in Hits(1) : onMouseUp(h, now) /\ edits' = 0

SpecMoves == Init /\ [][NextMoves]_vars

\* the feature Maps refer to features of their arrays, each under its own id
FeatMapsSound ==
  /\ \A k \in DOMAIN cacheRef.nodeFeatMap :
       /\ cacheRef.nodeFeatMap[k] \in DOMAIN cacheRef.nodeFC
       /\ cacheRef.nodeFC[cacheRef.nodeFeatMap[k]].id = k
  /\ \A k \in DOMAIN cacheRef.edgeFeatMap :
       /\ cacheRef.edgeFeatMap[k] \in DOMAIN cacheRef.edgeFC
       /\ cacheRef.edgeFC[cacheRef.edgeFeatMap[k]].id = k

-----------------------------------------------------------------------------
(* The adjacency index *)

\* every node of every edge has an adjacency entry that holds the edge
IndexComplete(net) ==
  \A e \in DOMAIN net.edges :
    \A n \in Range(net.edges[e]) :
      n \in DOMAIN net.nodeEdgeIndex /\ e \in net.nodeEdgeIndex[n]

\* every edge id of every adjacency entry is the id of an edge
IndexSound(net) ==
  \A n \in DOMAIN net.nodeEdgeIndex : net.nodeEdgeIndex[n] \subseteq DOMAIN net.edges

\* C1: after every step of the editor, every node id listed by an edge of the edge
\* table has an entry in nodeEdgeIndex, and that entry contains the edge's id.
C1_AdjacencyComplete == IndexComplete(netRef)

\* C2: after every step of the editor, every edge id in an entry of nodeEdgeIndex
\* is the id of an edge of the edge table.
C2_AdjacencySound == IndexSound(netRef)

\* C3: deleteNode(X) on a node X of the node table removes X from the node table,
\* removes every edge whose node list contains X, and leaves no adjacency entry
\* that contains the id of a removed edge.
C3_DeleteCascade ==
  [][(contextMenu.id \in DOMAIN netRef.nodes /\ MenuDelete) =>
       LET X == contextMenu.id
           removed == DOMAIN netRef.edges \ DOMAIN netRef'.edges
       IN /\ X \notin DOMAIN netRef'.nodes
          /\ \A e \in DOMAIN netRef'.edges : X \notin Range(netRef'.edges[e])
          /\ \A n \in DOMAIN netRef'.nodeEdgeIndex :
               netRef'.nodeEdgeIndex[n] \cap removed = {}]_vars

\* C4: splitEdge(e, p) on an edge e of the edge table with node list L and
\* closest-segment index i removes e and adds exactly two edges, with the node
\* lists L[0..i] followed by N and N followed by L[i+1..], where N is one node
\* that the call adds to the node table.
C4_SplitTwoEdges ==
  [][\A ts \in 0..MaxClock :
       (contextMenu.id \in DOMAIN netRef.edges /\ MenuSplit(ts)) =>
         LET e == contextMenu.id
             L == netRef.edges[e]
             i == closestSegmentIdx(L, netRef.nodes, contextMenu.lng, contextMenu.lat)
             addedNodes == DOMAIN netRef'.nodes \ DOMAIN netRef.nodes
             addedEdges == DOMAIN netRef'.edges \ DOMAIN netRef.edges
         IN /\ e \notin DOMAIN netRef'.edges
            /\ DOMAIN netRef.edges \ DOMAIN netRef'.edges = {e}
            /\ DOMAIN netRef.nodes \subseteq DOMAIN netRef'.nodes
            /\ Cardinality(addedNodes) = 1
            /\ Cardinality(addedEdges) = 2
            /\ \A N \in addedNodes :
                 {netRef'.edges[x] : x \in addedEdges} =
                   { [k \in 1..(i + 2) |-> IF k <= i + 1 THEN L[k] ELSE N],
                     [k \in 1..(Len(L) - i) |-> IF k = 1 THEN N ELSE L[i + k]] }
            /\ \A x \in DOMAIN netRef.edges \ {e} : netRef'.edges[x] = netRef.edges[x]]_vars

\* C5: a pointer-up that ends the drag of a node A of the node table over a node
\* B other than A leaves A at the position it had at button-down, adds exactly
\* one edge, with node list [A, B], adds and removes no node, and ends the drag.
C5_DragToConnect ==
  [][\A h \in Hits(MaxHits), ts \in 0..MaxClock :
       (/\ draggingRef # NoDrag
        /\ draggingRef.nodeId \in DOMAIN netRef.nodes
        /\ \E k \in DOMAIN h : h[k] # draggingRef.nodeId
        /\ onMouseUp(h, ts)) =>
         LET A == draggingRef.nodeId
             addedEdges == DOMAIN netRef'.edges \ DOMAIN netRef.edges
         IN /\ netRef'.nodes[A] = [lng |-> draggingRef.origLng, lat |-> draggingRef.origLat]
            /\ DOMAIN netRef'.nodes = DOMAIN netRef.nodes
            /\ DOMAIN netRef.edges \subseteq DOMAIN netRef'.edges
            /\ \A x \in DOMAIN netRef.edges : netRef'.edges[x] = netRef.edges[x]
            /\ Cardinality(addedEdges) = 1
            /\ \A x \in addedEdges :
                 /\ Len(netRef'.edges[x]) = 2
                 /\ netRef'.edges[x][1] = A
                 /\ netRef'.edges[x][2] # A
                 /\ \E k \in DOMAIN h : h[k] = netRef'.edges[x][2]
            /\ draggingRef' = NoDrag]_vars

\* C6: a pointer-up that ends a drag while the hit-test returns no node other
\* than the dragged one leaves the edge table and the adjacency index as they
\* are, leaves every node where the last pointer-move put it, and ends the drag.
C6_ReleaseOverNothing ==
  [][\A h \in Hits(MaxHits), ts \in 0..MaxClock :
       (/\ draggingRef # NoDrag
        /\ \A k \in DOMAIN h : h[k] = draggingRef.nodeId
        /\ onMouseUp(h, ts)) =>
         /\ netRef'.edges = netRef.edges
         /\ netRef'.nodeEdgeIndex = netRef.nodeEdgeIndex
         /\ netRef'.nodes = netRef.nodes
         /\ draggingRef' = NoDrag]_vars

\* a node was moved and then released over nothing: no edit has happened, the
\* drag has ended by a pointer-up (dragPan is enabled again) and a node lies
\* where only a pointer-move can have put it
C6_Witness ==
  /\ phase = "mounted"
  /\ edits = 0
  /\ draggingRef = NoDrag
  /\ dragPan
  /\ \E n \in DOMAIN netRef.nodes : netRef.nodes[n] = [lng |-> 100, lat |-> 0]
  /\ IndexComplete(netRef)

-----------------------------------------------------------------------------
(* The cached snapshot *)

\* the node and edge features of a cache, as sets of <<id, coordinates>>
SnapshotOf(cache) ==
  [nodes |-> {<<f.id, f.coords>> : f \in Range(cache.nodeFC)},
   edges |-> {<<f.id, f.coords>> : f \in Range(cache.edgeFC)}]

\* the same identities with the same coordinates, each once
SameSnapshot(a, b) ==
  /\ SnapshotOf(a) = SnapshotOf(b)
  /\ Len(a.nodeFC) = Len(b.nodeFC)
  /\ Len(a.edgeFC) = Len(b.edgeFC)

\* C7: on a loaded graph, after each pointer-move of a dragged node the cache
\* that the move handler updates in place has the node and edge features, ids
\* and coordinates, that buildCaches gives for the store at that moment.
C7_MoveKeepsSnapshot ==
  [][\A p \in DragPoints :
       (/\ draggingRef # NoDrag
        /\ draggingRef.nodeId \in DOMAIN netRef.nodes
        /\ onMouseMove(p)) =>
         SameSnapshot(cacheRef', buildCaches(netRef'))]_vars

\* the dragged node, which has an edge, has been moved away from where it was
\* at button-down
C7_Witness ==
  /\ draggingRef # NoDrag
  /\ draggingRef.nodeId \in DOMAIN netRef.nodes
  /\ netRef.nodes[draggingRef.nodeId] = [lng |-> 300, lat |-> 100]
  /\ draggingRef.origLat = 0
  /\ Connected(netRef, draggingRef.nodeId) # {}
  /\ SameSnapshot(cacheRef, buildCaches(netRef))

\* C8: deleteNode(id) with an id that is not in the node table leaves the node
\* table, the edge table and the adjacency index as they were.
C8_DeleteMissingNode ==
  [][(contextMenu.id \notin DOMAIN netRef.nodes /\ MenuDelete) => netRef' = netRef]_vars

\* C9: splitEdge(edgeId, p) with an edgeId that is not in the edge table changes
\* neither the store (nodes, edges, adjacency index) nor the cached features,
\* and raises no error.
C9_SplitMissingEdge ==
  [][\A ts \in 0..MaxClock :
       (contextMenu.id \notin DOMAIN netRef.edges /\ MenuSplit(ts)) =>
         /\ netRef' = netRef
         /\ cacheRef' = cacheRef
         /\ src' = src
         /\ threw' = FALSE]_vars

\* the menu is open on an edge that the store has no more: the split it offers
\* is a call of splitEdge with a missing edgeId, and it leaves the menu open
C9_Witness ==
  /\ phase = "mounted"
  /\ contextMenu.type = "edge"
  /\ contextMenu.id \notin DOMAIN netRef.edges
  /\ netRef.edges # EmptyMap
  /\ ~threw

\* C10: the editor is never at once dragging a node (draggingRef non-null) and
\* showing a context menu (contextMenu non-null).
C10_DragOrMenu == draggingRef = NoDrag \/ contextMenu = NoMenu

-----------------------------------------------------------------------------
(* Right-clicks, panning and the menu *)

\* C11: while a drag is in progress, a right-click on an edge or on a node is
\* ignored: it leaves the context menu and the drag as they are.
C11_RightClickWhileDragging ==
  [][/\ \A e \in rendered.edges, p \in MenuPoints :
          (draggingRef # NoDrag /\ onEdgeContextMenu(e, p)) =>
            (contextMenu' = contextMenu /\ draggingRef' = draggingRef)
     /\ \A n \in rendered.nodes :
          (draggingRef # NoDrag /\ onNodeContextMenu(n)) =>
            (contextMenu' = contextMenu /\ draggingRef' = draggingRef)]_vars

\* C12: over any sequence of editor events, repeated mouse-downs and the hook's
\* cleanup included, camera panning is disabled if and only if a drag is in
\* progress (draggingRef is non-null).
C12_PanningIffNotDragging == dragPan <=> (draggingRef = NoDrag)

\* C13: dismissing an open context menu, by a map click or by the menu's Cancel
\* button, closes the menu and leaves the node table, the edge table, the
\* adjacency index and every node position unchanged.
C13_DismissKeepsGraph ==
  [][(contextMenu # NoMenu /\ (onMapClick \/ MenuCancel)) =>
       /\ contextMenu' = NoMenu
       /\ netRef'.nodes = netRef.nodes
       /\ netRef'.edges = netRef.edges
       /\ netRef'.nodeEdgeIndex = netRef.nodeEdgeIndex]_vars

\* a menu is open on a loaded graph while the editor's click handler is on the
\* map and the menu is mounted: either dismissal can act on it
C13_Witness ==
  /\ contextMenu # NoMenu
  /\ addedRef
  /\ phase = "mounted"
  /\ netRef.edges # EmptyMap
  /\ contextMenu.id \in DOMAIN netRef.nodes \cup DOMAIN netRef.edges

\* C14: whenever the context menu is open and its action is confirmed (Split
\* edge for an edge menu, Delete node for a node menu), the menu is closed when
\* the action returns, whatever the state of the store: in no state can a
\* confirmed action return with the menu still open.
C14_ConfirmClosesMenu ==
  /\ ~ ENABLED (\E ts \in Readings : MenuSplit(ts) /\ contextMenu' # NoMenu)
  /\ ~ ENABLED (MenuDelete /\ contextMenu' # NoMenu)

-----------------------------------------------------------------------------
(* The initial parse *)

\* the vertices of the parsed LineStrings: the second rounds to the key of the
\* first, the third to the next key
ParsePoints == {<<0, 0>>, <<3, 0>>, <<6, 0>>}
\* the vertices of the parsed MultiLineStrings
MultiPoints == {<<0, 0>>, <<6, 0>>}
\* the longest line a LineString has, and the longest of a MultiLineString's two
MaxRingLen == 3
MaxMultiRingLen == 2

\* the lines of at most n vertices of P
RingsUpTo(P, n) == UNION {[1..k -> P] : k \in 0..n}

\* a LineString, or a MultiLineString of two lines
ParsedGraphs ==
  {<<[type |-> "LineString", coordinates |-> r]>> : r \in RingsUpTo(ParsePoints, MaxRingLen)}
    \cup {<<[type |-> "MultiLineString", coordinates |-> <<r1, r2>>]>> :
            r1 \in RingsUpTo(MultiPoints, MaxMultiRingLen),
            r2 \in RingsUpTo(MultiPoints, MaxMultiRingLen)}

\* The editor from construction to its first load, over the parsed networks.
NextParse ==
  \/ Mount
  \/ StyleLoad
  \/ \E g \in ParsedGraphs : cacheRef.null /\ rebuild(g)
  \/ Render

SpecParse == Init /\ [][NextParse]_vars


\* the 6-decimal keys of the vertices of a line, and of all the lines
KeysOfLine(ring) == {KeyOf(ring[i][1], ring[i][2]) : i \in DOMAIN ring}
InputKeys(rings) == UNION {KeysOfLine(rings[r]) : r \in DOMAIN rings}

\* the positions of the lines with at least two vertices
LongLines(rings) == {r \in DOMAIN rings : Len(rings[r]) >= 2}
\* the positions of the lines with at least two distinct vertices after quantization
DistinctLines(rings) == {r \in DOMAIN rings : Cardinality(KeysOfLine(rings[r])) >= 2}

\* the node list of edge e is the line, vertex by vertex: each id is a node of
\* the table whose coordinates round to the key of the vertex
Resolves(net, e, ring) ==
  /\ Len(net.edges[e]) = Len(ring)
  /\ \A i \in DOMAIN ring :
       /\ net.edges[e][i] \in DOMAIN net.nodes
       /\ KeyOf(net.nodes[net.edges[e][i]].lng, net.nodes[net.edges[e][i]].lat)
            = KeyOf(ring[i][1], ring[i][2])

\* the node table has one node for each key of the input, and no other
OneNodePerKey(net, rings) ==
  /\ {KeyOf(net.nodes[n].lng, net.nodes[n].lat) : n \in DOMAIN net.nodes} = InputKeys(rings)
  /\ Cardinality(DOMAIN net.nodes) = Cardinality(InputKeys(rings))

\* the edges of the table are the lines at the positions `lines`, one edge each
EdgesAre(net, rings, lines) ==
  \E f \in [lines -> DOMAIN net.edges] :
    /\ \A r1, r2 \in lines : f[r1] = f[r2] => r1 = r2
    /\ {f[r] : r \in lines} = DOMAIN net.edges
    /\ \A r \in lines : Resolves(net, f[r], rings[r])

\* C15: during the initial parse, an input line with fewer than 2 distinct
\* vertices after quantization produces no edge, no error is raised and the
\* other lines are loaded: the edges are the lines with 2 distinct vertices.
C15_DegenerateLineDropped ==
  [][\A g \in ParsedGraphs :
       (cacheRef.null /\ ~cacheRef'.null /\ rebuild(g)) =>
         /\ EdgesAre(netRef', AllRings(g), DistinctLines(AllRings(g)))
         /\ ~threw']_vars

\* C16: in parseNetwork two vertices resolve to the same node id if and only if
\* their coordinates round to the same 6-decimal key; the node table has one
\* node per distinct key, and each line of at least 2 vertices yields one edge
\* whose node list is the resolved ids of its vertices in input order.
C16_ParseQuantizes ==
  [][\A g \in ParsedGraphs :
       (cacheRef.null /\ ~cacheRef'.null /\ rebuild(g)) =>
         /\ OneNodePerKey(netRef', AllRings(g))
         /\ EdgesAre(netRef', AllRings(g), LongLines(AllRings(g)))]_vars

\* a line of three vertices has been parsed whose first two vertices share a
\* node and whose third has another: two nodes, one edge
C16_Witness ==
  /\ Cardinality(DOMAIN netRef.nodes) = 2
  /\ \E e \in DOMAIN netRef.edges :
       /\ Len(netRef.edges[e]) = 3
       /\ netRef.edges[e][1] = netRef.edges[e][2]
       /\ netRef.edges[e][2] # netRef.edges[e][3]
  /\ netRef.nodes[NodeId(0)] # netRef.nodes[NodeId(1)]

-----------------------------------------------------------------------------
(* The closest segment *)

\* the points the closest segment is asked for; the middle one is as far from
\* the midpoint of (0,0)-(200,0) as from that of (200,0)-(400,0)
ProbePoints == {<<100, 0>>, <<200, 100>>, <<300, 100>>}

\* the indices i of the segments (nodeIds[i], nodeIds[i+1]) whose two nodes exist
LiveSegments(nodeIds, nodes) ==
  {i \in 0..(Len(nodeIds) - 2) :
     nodeIds[i + 1] \in DOMAIN nodes /\ nodeIds[i + 2] \in DOMAIN nodes}

\* four times the squared Euclidean distance from p to the midpoint of segment i
SqDistToMid(nodeIds, nodes, i, p) ==
  LET a == nodes[nodeIds[i + 1]]
      b == nodes[nodeIds[i + 2]]
      dx == a.lng + b.lng - 2 * p[1]
      dy == a.lat + b.lat - 2 * p[2]
  IN dx * dx + dy * dy

\* i is the lowest index among the segments nearest to p, or 0 without segments
LowestNearest(i, nodeIds, nodes, p) ==
  LET live == LiveSegments(nodeIds, nodes)
  IN IF live = {} THEN i = 0
     ELSE /\ i \in live
          /\ \A k \in live :
               /\ SqDistToMid(nodeIds, nodes, i, p) <= SqDistToMid(nodeIds, nodes, k, p)
               /\ SqDistToMid(nodeIds, nodes, k, p) = SqDistToMid(nodeIds, nodes, i, p) => i <= k

\* C17: closestSegmentIdx(nodeIds, nodes, p) is the lowest index i in 0..len-2
\* that minimises the squared distance between p and the midpoint of segment
\* (nodeIds[i], nodeIds[i+1]) over the segments whose two nodes exist, and 0
\* when no segment has both nodes: for every edge of the store and every point.
C17_ClosestSegment ==
  \A e \in DOMAIN netRef.edges, p \in ProbePoints :
    LowestNearest(closestSegmentIdx(netRef.edges[e], netRef.nodes, p[1], p[2]),
                  netRef.edges[e], netRef.nodes, p)

\* after a split, the store holds an edge with a node that is not in the node
\* table and an edge of two segments whose nearest segment to some point is not
\* its first
C17_Witness ==
  /\ \E n \in DOMAIN netRef.nodes : n[1] = "n_split_"
  /\ \E e \in DOMAIN netRef.edges : Range(netRef.edges[e]) \ DOMAIN netRef.nodes # {}
  /\ \E e \in DOMAIN netRef.edges, p \in ProbePoints :
       /\ Cardinality(LiveSegments(netRef.edges[e], netRef.nodes)) >= 2
       /\ closestSegmentIdx(netRef.edges[e], netRef.nodes, p[1], p[2]) > 0

-----------------------------------------------------------------------------
(* The pushes of a drag *)

\* C18: during an incremental update (a pointer-move while dragging node N) the
\* editor pushes to the rendering backend only N's point and the polylines of
\* N's incident edges: the data given to setData holds no other primitive.
C18_PushOnlyChanged ==
  [][\A p \in DragPoints :
       (/\ draggingRef # NoDrag
        /\ draggingRef.nodeId \in DOMAIN netRef.nodes
        /\ onMouseMove(p)) =>
         /\ \A f \in Range(src'.nodes) : f.id = draggingRef.nodeId
         /\ \A f \in Range(src'.edges) : f.id \in Connected(netRef, draggingRef.nodeId)]_vars

-----------------------------------------------------------------------------
(* Events that arrive late *)

\* at most this many connects and deletions follow a rebuild in SpecRace
MaxRaceEdits == 2

\* The editor while the menu and a drag overlap: a node menu stays open when a
\* drag starts, and its deletion is confirmed before the pointer is moved or
\* released.  One clock reading, one network, node menus only.
NextRace ==
  \/ Mount
  \/ StyleLoad
  \/ \E g \in Networks : cacheRef.null /\ rebuild(g)
  \/ Render
  \/ \E n \in rendered.nodes : onNodeMouseDown(0, n)
  \/ \E p \in MovePoints : onMouseMove(p)
  \/ \E h \in Hits(1), ts \in {now} : onMouseUp(h, ts) /\ edits' <= MaxRaceEdits
  \/ \E n \in rendered.nodes : onNodeContextMenu(n)
  \/ MenuDelete /\ edits' <= MaxRaceEdits
  \/ MenuCancel

SpecRace == Init /\ [][NextRace]_vars

\* C19: a pointer-move or a pointer-up of a drag whose node is no longer in the
\* node table mutates neither the node table, the edge table nor the adjacency
\* index, and raises no error.
C19_LateEventNoOp ==
  [][/\ \A p \in MovePoints :
          (/\ draggingRef # NoDrag
           /\ draggingRef.nodeId \notin DOMAIN netRef.nodes
           /\ onMouseMove(p)) => (netRef' = netRef /\ ~threw')
     /\ \A h \in Hits(1), ts \in {now} :
          (/\ draggingRef # NoDrag
           /\ draggingRef.nodeId \notin DOMAIN netRef.nodes
           /\ onMouseUp(h, ts)) => (netRef' = netRef /\ ~threw')]_vars

-----------------------------------------------------------------------------
(* useNetworkData *)

editorVars == <<netRef, cacheRef, draggingRef, hoveredNodeRef, contextMenu, addedRef, phase,
                styleLoaded, loadPending, dragPan, src, rendered, now, threw, edits>>

\* a component renders for the first time: const [data, setData] = useState(cachedData)
useNetworkData(c) ==
  /\ consumers[c].pc = "unmounted"
  /\ consumers' = [consumers EXCEPT ![c] = [pc |-> "rendered", data |-> cachedData]]
  /\ UNCHANGED <<cachedData, loadingPromise, shpCalls>>
  /\ UNCHANGED editorVars
  /\ UNCHANGED network

\* an effect that starts a load whenever there is no cached data
useEffectNoPromiseCheck(c) ==
  /\ consumers[c].pc = "rendered"
  /\ IF Truthy(cachedData)
       THEN /\ consumers' = [consumers EXCEPT ![c] = [pc |-> "returned", data |-> cachedData]]
            /\ UNCHANGED <<loadingPromise, shpCalls>>
       ELSE /\ loadingPromise' = [state |-> "pending", value |-> Null]
            /\ shpCalls' = shpCalls + 1
            /\ consumers' = [consumers EXCEPT ![c].pc = "waiting"]
  /\ UNCHANGED cachedData
  /\ UNCHANGED editorVars
  /\ UNCHANGED network

\* the component's effect: the cached data, or a reaction on the one promise
useEffect(c) ==
  /\ consumers[c].pc = "rendered"
  /\ IF Truthy(cachedData)
       THEN /\ consumers' = [consumers EXCEPT ![c] = [pc |-> "returned", data |-> cachedData]]
            /\ UNCHANGED <<loadingPromise, shpCalls>>
       ELSE /\ IF loadingPromise.state = "none"
                 THEN /\ loadingPromise' = [state |-> "pending", value |-> Null]
                      /\ shpCalls' = shpCalls + 1
                 ELSE UNCHANGED <<loadingPromise, shpCalls>>
            /\ consumers' = [consumers EXCEPT ![c].pc = "waiting"]
  /\ UNCHANGED cachedData
  /\ UNCHANGED editorVars
  /\ UNCHANGED network

\* shp() resolves: the reaction of lines 22-27 sets cachedData and fulfils loadingPromise
shpThen(geojson) ==
  /\ loadingPromise.state = "pending"
  /\ cachedData' = FirstCollection(geojson)
  /\ loadingPromise' = [state |-> "fulfilled", value |-> FirstCollection(geojson)]
  /\ UNCHANGED <<shpCalls, consumers>>
  /\ UNCHANGED editorVars
  /\ UNCHANGED network

\* shp() rejects: loadingPromise is rejected and stays in place
shpCatch ==
  /\ loadingPromise.state = "pending"
  /\ loadingPromise' = [state |-> "rejected", value |-> Null]
  /\ UNCHANGED <<cachedData, shpCalls, consumers>>
  /\ UNCHANGED editorVars
  /\ UNCHANGED network

\* a reaction that finishes without passing the promise's value to setData
setDataDropped(c) ==
  /\ consumers[c].pc = "waiting"
  /\ loadingPromise.state \in {"fulfilled", "rejected"}
  /\ consumers' = [consumers EXCEPT ![c].pc =
                     IF loadingPromise.state = "fulfilled" THEN "settled" ELSE "failed"]
  /\ UNCHANGED <<cachedData, loadingPromise, shpCalls>>
  /\ UNCHANGED editorVars
  /\ UNCHANGED network

\* a consumer's reaction on the settled promise: .then((fc) => setData(fc)) or .catch(...)
setData(c) ==
  /\ consumers[c].pc = "waiting"
  /\ loadingPromise.state \in {"fulfilled", "rejected"}
  /\ consumers' = [consumers EXCEPT ![c] =
                     IF loadingPromise.state = "fulfilled"
                       THEN [pc |-> "settled", data |-> loadingPromise.value]
                       ELSE [pc |-> "failed", data |-> consumers[c].data]]
  /\ UNCHANGED <<cachedData, loadingPromise, shpCalls>>
  /\ UNCHANGED editorVars
  /\ UNCHANGED network

\* a component whose effect has finished unmounts; it can mount again
Unmount(c) ==
  /\ consumers[c].pc \in {"returned", "settled", "failed"}
  /\ consumers' = [consumers EXCEPT ![c] = [pc |-> "unmounted", data |-> Null]]
  /\ UNCHANGED <<cachedData, loadingPromise, shpCalls>>
  /\ UNCHANGED editorVars
  /\ UNCHANGED network

NextLoad ==
  \/ \E c \in Consumers : useNetworkData(c)
  \/ \E c \in Consumers : useEffect(c)
  \/ \E g \in ShpResults : shpThen(g)
  \/ shpCatch
  \/ \E c \in Consumers : setData(c)
  \/ \E c \in Consumers : Unmount(c)

SpecLoad == Init /\ [][NextLoad]_vars

\* React runs the effect of every component it has rendered, and a reaction on a
\* settled promise runs as a microtask: neither can be postponed for ever.  The
\* outcome of shp(), the mounts and the unmounts are the environment's.
SpecLoadFair ==
  /\ Init
  /\ [][NextLoad]_vars
  /\ \A c \in Consumers : WF_vars(useEffect(c)) /\ WF_vars(setData(c))

\* C20: useNetworkData starts the shapefile load at most once per process,
\* however the consumers' mounts interleave with the success or the failure of
\* the load: shp() is called at most once, and a consumer whose effect runs
\* after a successful load gets the loaded data without a new call.
C20_LoadOnce ==
  /\ [](shpCalls <= 1)
  /\ [][\A c \in Consumers :
          (loadingPromise.state = "fulfilled" /\ (useEffect(c) \/ setData(c))) =>
            /\ shpCalls' = shpCalls
            /\ \/ consumers'[c].data = loadingPromise.value
               \/ consumers'[c].pc = "waiting"]_vars

\* the load has succeeded after one call of shp(); one consumer got the data
\* from the promise it waited for, another from the cache, by the early
\* return of its effect, and a third has not mounted yet
C20_Witness ==
  /\ shpCalls = 1
  /\ loadingPromise.state = "fulfilled"
  /\ Truthy(cachedData)
  /\ \E c1, c2, c3 \in Consumers :
       /\ consumers[c1] = [pc |-> "settled", data |-> cachedData]
       /\ consumers[c2] = [pc |-> "returned", data |-> cachedData]
       /\ consumers[c3].pc = "unmounted"

-----------------------------------------------------------------------------
(* Frames of the edits *)

\* C21: deleteNode(X) leaves every node other than X in the node table with its
\* position unchanged, neighbours left without edges included, and leaves
\* every edge whose node list does not contain X unchanged.
C21_DeleteFrame ==
  [][MenuDelete =>
       LET X == contextMenu.id
       IN /\ \A n \in DOMAIN netRef.nodes \ {X} :
               n \in DOMAIN netRef'.nodes /\ netRef'.nodes[n] = netRef.nodes[n]
          /\ \A e \in DOMAIN netRef.edges :
               X \notin Range(netRef.edges[e]) =>
                 e \in DOMAIN netRef'.edges /\ netRef'.edges[e] = netRef.edges[e]]_vars


\* C22: in every reachable state every edge of the edge table has a node list
\* of at least 2 node ids: the parse, drag-to-connect and splitEdge, for every
\* segment index it can choose, keep it.
C22_EdgeHasTwoNodes == \A e \in DOMAIN netRef.edges : Len(netRef.edges[e]) >= 2

\* the store holds a parsed edge, a connecting edge and both halves of a split,
\* one of them the short half at an end of the split edge
C22_Witness ==
  /\ \E e \in DOMAIN netRef.edges : e[1] = "e"
  /\ \E e \in DOMAIN netRef.edges : e[1] = "e_conn_"
  /\ \E e \in DOMAIN netRef.edges : e[1] = "e_a"
  /\ \E e \in DOMAIN netRef.edges : e[1] = "e_b" /\ Len(netRef.edges[e]) = 2


\* C23: a pointer-move while dragging node N changes only N's position in the
\* store: the set of node ids, the positions of the other nodes, the edge table
\* and the adjacency index are unchanged; a pointer-move while not dragging
\* changes nothing.
C23_MoveFrame ==
  [][\A p \in DragPoints :
       onMouseMove(p) =>
         IF draggingRef = NoDrag
           THEN netRef' = netRef /\ cacheRef' = cacheRef
           ELSE /\ DOMAIN netRef'.nodes = DOMAIN netRef.nodes
                /\ \A n \in DOMAIN netRef.nodes \ {draggingRef.nodeId} :
                     netRef'.nodes[n] = netRef.nodes[n]
                /\ draggingRef.nodeId \in DOMAIN netRef.nodes =>
                     netRef'.nodes[draggingRef.nodeId] = [lng |-> p[1], lat |-> p[2]]
                /\ netRef'.edges = netRef.edges
                /\ netRef'.nodeEdgeIndex = netRef.nodeEdgeIndex]_vars

\* a dragged node with two edges lies where a pointer-move put it, off every
\* vertex of the loaded lines, and the edges and the index are those of the load
C23_Witness ==
  /\ draggingRef # NoDrag
  /\ draggingRef.nodeId \in DOMAIN netRef.nodes
  /\ netRef.nodes[draggingRef.nodeId] = [lng |-> 100, lat |-> 0]
  /\ Cardinality(Connected(netRef, draggingRef.nodeId)) = 2
  /\ IndexComplete(netRef)
  /\ \A e \in DOMAIN netRef.edges : e[1] = "e"


\* C24: a pointer-move while dragging node N rewrites, in the cached snapshot,
\* only N's point feature and the polyline features of the edges in N's
\* adjacency entry: every other point and polyline feature is left as it was.
C24_MoveCacheFrame ==
  [][\A p \in DragPoints :
       (draggingRef # NoDrag /\ onMouseMove(p)) =>
         /\ Len(cacheRef'.nodeFC) = Len(cacheRef.nodeFC)
         /\ Len(cacheRef'.edgeFC) = Len(cacheRef.edgeFC)
         /\ \A i \in DOMAIN cacheRef.nodeFC :
              cacheRef.nodeFC[i].id # draggingRef.nodeId =>
                cacheRef'.nodeFC[i] = cacheRef.nodeFC[i]
         /\ \A i \in DOMAIN cacheRef.edgeFC :
              cacheRef.edgeFC[i].id \notin Connected(netRef, draggingRef.nodeId) =>
                cacheRef'.edgeFC[i] = cacheRef.edgeFC[i]
         /\ cacheRef'.nodeFeatMap = cacheRef.nodeFeatMap
         /\ cacheRef'.edgeFeatMap = cacheRef.edgeFeatMap]_vars

\* the point feature of the dragged node is where a pointer-move put it, and
\* the cache holds the polyline of an edge that is not in its adjacency entry
C24_Witness ==
  /\ draggingRef # NoDrag
  /\ \E i \in DOMAIN cacheRef.nodeFC :
       /\ cacheRef.nodeFC[i].id = draggingRef.nodeId
       /\ cacheRef.nodeFC[i].coords = <<300, 100>>
  /\ \E i \in DOMAIN cacheRef.nodeFC :
       /\ cacheRef.nodeFC[i].id # draggingRef.nodeId
       /\ cacheRef.nodeFC[i].coords = <<200, 0>>
  /\ \E i \in DOMAIN cacheRef.edgeFC :
       /\ cacheRef.edgeFC[i].id \notin Connected(netRef, draggingRef.nodeId)
       /\ <<300, 100>> \notin Range(cacheRef.edgeFC[i].coords)

-----------------------------------------------------------------------------
(* The hovered node *)

\* The editor while the pointer enters and leaves nodes and drags them, without
\* edits: one network, releases over nothing or over the dragged node.
NextHover ==
  \/ Mount
  \/ StyleLoad
  \/ \E g \in Networks : cacheRef.null /\ rebuild(g)
  \/ Render
  \/ \E n \in rendered.nodes : onNodeEnter(n)
  \/ onNodeLeave
  \/ \E n \in rendered.nodes : onNodeMouseDown(0, n)
  \/ \E p \in MovePoints : onMouseMove(p)
  \/ \E h \in Hits(1) : onMouseUp(h, now) /\ edits' = 0

SpecHover == Init /\ [][NextHover]_vars

\* C25: the tracked hovered node is cleared whenever a drag begins and whenever
\* the pointer leaves the node layer: hoveredNodeRef is null in every state in
\* which a drag is in progress, and after every leave event.
C25_HoverCleared ==
  /\ [](draggingRef # NoDrag => hoveredNodeRef = NoId)
  /\ [][onNodeLeave => hoveredNodeRef' = NoId]_vars

-----------------------------------------------------------------------------
(* The place of a split *)

\* C26: the node created by confirming Split from an edge menu is placed at the
\* geographic point recorded when the right-click opened the menu, whatever
\* was moved between the right-click and the confirmation: the menu records
\* the point of the right-click, and the split puts the new node there.
C26_SplitAtMenuPoint ==
  [][/\ \A e \in rendered.edges, p \in MenuPoints :
          onEdgeContextMenu(e, p) => (contextMenu'.lng = p[1] /\ contextMenu'.lat = p[2])
     /\ \A ts \in 0..MaxClock :
          (contextMenu.id \in DOMAIN netRef.edges /\ MenuSplit(ts)) =>
            /\ SplitNodeId(ts) \in DOMAIN netRef'.nodes
            /\ netRef'.nodes[SplitNodeId(ts)]
                 = [lng |-> contextMenu.lng, lat |-> contextMenu.lat]
            /\ \E i \in DOMAIN cacheRef'.nodeFC :
                 cacheRef'.nodeFC[i] = [id |-> SplitNodeId(ts),
                                        coords |-> <<contextMenu.lng, contextMenu.lat>>]]_vars

\* a split has put its node at the right-click point (300, 100) while a node
\* of the split edge is being dragged and lies at (100, 0), where a
\* pointer-move put it: neither a vertex nor a midpoint of the edge as it is
C26_Witness ==
  /\ \E n \in DOMAIN netRef.nodes :
       n[1] = "n_split_" /\ netRef.nodes[n] = [lng |-> 300, lat |-> 100]
  /\ draggingRef # NoDrag
  /\ draggingRef.nodeId \in DOMAIN netRef.nodes
  /\ netRef.nodes[draggingRef.nodeId] = [lng |-> 100, lat |-> 0]
  /\ draggingRef.origLng # 100

-----------------------------------------------------------------------------
(* The start of a drag *)

\* C27: only a primary-button mouse-down on a node primitive starts a drag: a
\* mouse-down with another button, or on a feature whose node id is missing or
\* not in the node table, cannot change the interaction state, the
\* camera-panning setting or the store.
C27_OnlyPrimaryStartsDrag ==
  \A b \in Buttons, n \in rendered.nodes \cup {NoId} :
    (b # 0 \/ n \notin DOMAIN netRef.nodes) =>
      ~ ENABLED (/\ onNodeMouseDown(b, n)
                 /\ <<draggingRef, contextMenu, hoveredNodeRef, dragPan, netRef, cacheRef>>'
                      # <<draggingRef, contextMenu, hoveredNodeRef, dragPan, netRef, cacheRef>>)

\* the map still renders a node that the node table has no more, no drag is
\* in progress and panning is enabled: a mouse-down on it is such an event
C27_Witness ==
  /\ addedRef
  /\ rendered.nodes \ DOMAIN netRef.nodes # {}
  /\ DOMAIN netRef.nodes # {}
  /\ draggingRef = NoDrag
  /\ dragPan

-----------------------------------------------------------------------------
(* The cached snapshot after edits *)

\* C28: after any sequence of editor operations (rebuild, pointer-moves,
\* drag-to-connect, splitEdge, deleteNode) the cached snapshot equals the full
\* projection buildCaches of the store: one point feature per node at its
\* position, one polyline feature per edge with at least 2 resolvable nodes,
\* with the coordinates of its nodes in order, and no other feature.
C28_CacheIsProjection ==
  ~cacheRef.null => SameSnapshot(cacheRef, buildCaches(netRef))


\* C29: in every reachable state every node id in the node list of an edge of
\* the edge table is the id of a node present in the node table, for any
\* interleaving of drags, connects, splits and deletes, a delete confirmed
\* while a drag is in progress included.
C29_EdgeNodesExist ==
  \A e \in DOMAIN netRef.edges :
    \A i \in 1..Len(netRef.edges[e]) :
      netRef.edges[e][i] \in DOMAIN netRef.nodes


\* C30: every node id and edge id created by splitEdge or by drag-to-connect
\* differs from every id already in the node table or edge table at that
\* moment, for any sequence of operations and any non-decreasing clock readings:
\* a split raises the node count by 1 and the edge count by 1 and a connect
\* raises the edge count by 1, and no existing node or edge is overwritten.
C30_CreatedIdsAreNew ==
  [][/\ \A h \in Hits(1), ts \in now..MaxClock :
          (/\ draggingRef # NoDrag
           /\ TargetOf(h, draggingRef.nodeId) # NoId
           /\ onMouseUp(h, ts))
          => /\ ConnEdgeId(ts) \notin DOMAIN netRef.edges
             /\ Cardinality(DOMAIN netRef'.edges) = Cardinality(DOMAIN netRef.edges) + 1
             /\ \A e \in DOMAIN netRef.edges : e \in DOMAIN netRef'.edges
                                            /\ netRef'.edges[e] = netRef.edges[e]
     /\ \A ts \in now..MaxClock :
          (/\ contextMenu.type = "edge"
           /\ contextMenu.id \in DOMAIN netRef.edges
           /\ MenuSplit(ts))
          => /\ SplitNodeId(ts) \notin DOMAIN netRef.nodes
             /\ SplitEdgeIdA(ts) \notin DOMAIN netRef.edges
             /\ SplitEdgeIdB(ts) \notin DOMAIN netRef.edges
             /\ Cardinality(DOMAIN netRef'.nodes) = Cardinality(DOMAIN netRef.nodes) + 1
             /\ Cardinality(DOMAIN netRef'.edges) = Cardinality(DOMAIN netRef.edges) + 1
             /\ \A e \in DOMAIN netRef.edges \ {contextMenu.id} :
                  e \in DOMAIN netRef'.edges /\ netRef'.edges[e] = netRef.edges[e]
             /\ \A n \in DOMAIN netRef.nodes :
                  n \in DOMAIN netRef'.nodes /\ netRef'.nodes[n] = netRef.nodes[n]
    ]_vars


\* C31: from the mouse-down that starts a drag until the pointer-up that ends
\* it, the dragged node's identity and the recorded original position do not
\* change, whatever other events arrive in between: while a drag is in progress
\* and stays in progress, draggingRef.current keeps its value.
C31_DragRecordKept ==
  [][(draggingRef # NoDrag /\ draggingRef' # NoDrag) => draggingRef' = draggingRef]_vars


-----------------------------------------------------------------------------
(* one right-click delivered to the handlers of both layers *)

\* a dispatch in which the node layer's handler runs before the edge layer's
contextmenuNodeFirst(edgeHit, nodeHit, p) ==
  /\ addedRef
  /\ edgeHit # NoId \/ nodeHit # NoId
  /\ LET m1 == IF nodeHit # NoId /\ draggingRef = NoDrag
                 THEN [type |-> "node", id |-> nodeHit, lng |-> 0, lat |-> 0]
                 ELSE contextMenu
         m2 == IF edgeHit # NoId
                 THEN [type |-> "edge", id |-> edgeHit, lng |-> p[1], lat |-> p[2]]
                 ELSE m1
     IN contextMenu' = m2
  /\ UNCHANGED <<netRef, cacheRef, draggingRef, hoveredNodeRef, addedRef, phase, styleLoaded,
                 loadPending, dragPan, src, rendered, now, threw, edits>>
  /\ UNCHANGED loaderVars

\* the map's "contextmenu" event at p: the listeners registered for it run in the
\* order of their registration, onEdgeContextMenu (line 326) when the hit-test on
\* EDGE_HIT gives edgeHit, then onNodeContextMenu (line 327) when the hit-test on
\* NODE_LAYER gives nodeHit; NoId stands for a layer that is not hit.  The two
\* setContextMenu calls are batched: the last one is the state rendered.
contextmenu(edgeHit, nodeHit, p) ==
  /\ addedRef
  /\ edgeHit # NoId \/ nodeHit # NoId
  /\ LET m1 == IF edgeHit # NoId
                 THEN [type |-> "edge", id |-> edgeHit, lng |-> p[1], lat |-> p[2]]
                 ELSE contextMenu
         m2 == IF nodeHit # NoId /\ draggingRef = NoDrag
                 THEN [type |-> "node", id |-> nodeHit, lng |-> 0, lat |-> 0]
                 ELSE m1
     IN contextMenu' = m2
  /\ UNCHANGED <<netRef, cacheRef, draggingRef, hoveredNodeRef, addedRef, phase, styleLoaded,
                 loadPending, dragPan, src, rendered, now, threw, edits>>
  /\ UNCHANGED loaderVars

\* The editor under right-clicks that land on the edge layer, the node layer or
\* both, with drags that edit nothing but positions.
NextMenu ==
  \/ Mount
  \/ StyleLoad
  \/ \E g \in LoadedGraphs : cacheRef.null /\ rebuild(g)
  \/ Render
  \/ \E e \in rendered.edges \cup {NoId}, n \in rendered.nodes \cup {NoId}, p \in MenuPoints :
       contextmenu(e, n, p)
  \/ \E n \in rendered.nodes : onNodeMouseDown(0, n)
  \/ \E p \in MovePoints : onMouseMove(p)
  \/ onMouseUp(<<>>, now)
  \/ onMapClick
  \/ MenuCancel

SpecMenu == Init /\ [][NextMenu]_vars

\* C32: when one right-click lands on both an edge primitive and a node
\* primitive while no drag is in progress, the edge handler runs first and the
\* node handler second, and the menu that is open afterwards is the node menu
\* for that node.
C32_NodeMenuWins ==
  [][\A e \in rendered.edges, n \in rendered.nodes, p \in MenuPoints :
       (draggingRef = NoDrag /\ contextmenu(e, n, p))
       => contextMenu' = [type |-> "node", id |-> n, lng |-> 0, lat |-> 0]]_vars

\* a node menu is open over a network whose edges are drawn, outside a drag:
\* the node under the right-click lies on an edge, so the click hit both layers
C32_Witness ==
  /\ contextMenu.type = "node"
  /\ draggingRef = NoDrag
  /\ contextMenu.id \in rendered.nodes
  /\ \E e \in rendered.edges :
       e \in DOMAIN netRef.edges /\ contextMenu.id \in Range(netRef.edges[e])


\* C33: for either order of the two events "network data arrives" (rebuild) and
\* "the map style is loaded and the editor layers are added" (init), once both
\* have happened the editor's edge and node sources hold the snapshot of the
\* parsed network, not the empty collection: the step that completes the pair
\* leaves the sources with the cached snapshot, which is the projection of the
\* parsed data, and they hold the cached snapshot in every state after it.
C33_SourcesHoldSnapshot ==
  /\ []((addedRef /\ ~cacheRef.null)
        => /\ src = [nodes |-> cacheRef.nodeFC, edges |-> cacheRef.edgeFC]
           /\ (DOMAIN netRef.nodes # {} => src.nodes # <<>>))
  /\ [][/\ (~addedRef /\ addedRef' /\ ~cacheRef.null)
           => src' = [nodes |-> cacheRef.nodeFC, edges |-> cacheRef.edgeFC]
        /\ \A g \in LoadedGraphs :
             (addedRef /\ rebuild(g))
             => src' = [nodes |-> buildCaches(parseNetwork(g)).nodeFC,
                        edges |-> buildCaches(parseNetwork(g)).edgeFC]]_vars

\* the layers are added, a network is parsed, and the sources hold its features
C33_Witness ==
  /\ addedRef
  /\ ~cacheRef.null
  /\ Len(src.nodes) >= 3
  /\ Len(src.edges) >= 1
  /\ rendered = NothingRendered


-----------------------------------------------------------------------------
(* mounting and unmounting *)

\* The editor's life from mount to cleanup, in either order with the map's
\* "load" event, with loads and drags that edit nothing but positions.
NextMount ==
  \/ Mount
  \/ StyleLoad
  \/ Cleanup
  \/ \E g \in LoadedGraphs : rebuild(g)
  \/ Render
  \/ \E n \in rendered.nodes : onNodeMouseDown(0, n)
  \/ \E p \in MovePoints : onMouseMove(p)
  \/ onMouseUp(<<>>, now)

SpecMount == Init /\ [][NextMount]_vars

\* C34: after the cleanup of the mount effect no editor layer, source or event
\* handler (the pending "load" listener included) remains on the map and no drag
\* is in progress; a "load" event delivered after the cleanup adds none of them;
\* init takes effect at most once per mount and never after the cleanup: the
\* layers are added only while mounted and are removed only by the cleanup.
C34_NothingAfterCleanup ==
  /\ [](phase = "cleaned"
        => /\ ~addedRef
           /\ ~loadPending
           /\ src = EmptySrc
           /\ rendered = NothingRendered
           /\ draggingRef = NoDrag)
  /\ [][/\ (phase = "cleaned" /\ StyleLoad) => (~addedRef' /\ src' = EmptySrc)
        /\ (~addedRef /\ addedRef') => phase' = "mounted"
        /\ (addedRef /\ ~addedRef') => (phase = "mounted" /\ phase' = "cleaned")]_vars

\* the cleanup ran during a drag (the map's panning is still disabled), after
\* the style was loaded and the layers were added over a parsed network
C34_Witness ==
  /\ phase = "cleaned"
  /\ styleLoaded
  /\ ~cacheRef.null
  /\ ~dragPan
  /\ draggingRef = NoDrag


-----------------------------------------------------------------------------
(* useNetwork *)

dataVars == <<cachedData, loadingPromise, shpCalls, consumers>>

\* init() calls addLayer(): it returns at line 25 when added.current is true,
\* else it calls shp() and awaits the result
AddLayerCall(run, added) ==
  IF added THEN [run EXCEPT !.pc = "returned"] ELSE [run EXCEPT !.pc = "loading"]

\* the effect of mount r: if (map.isStyleLoaded()) init(); else map.once("load", init);
\* a component mounts again only after the cleanup of its last effect
useNetwork(r) ==
  /\ network.runs[r].pc = "none"
  /\ \A q \in Runs : q < r => (network.runs[q].pc # "none" /\ network.runs[q].cancelled)
  /\ network' = [network EXCEPT !.runs[r] =
                   IF network.styleLoaded THEN AddLayerCall(@, network.added)
                   ELSE [@ EXCEPT !.pc = "waitLoad"]]
  /\ UNCHANGED dataVars
  /\ UNCHANGED editorVars

\* the map's "load" event: every init registered with once() runs (the cleanup
\* does not remove it)
networkLoad ==
  /\ ~network.styleLoaded
  /\ network' = [network EXCEPT
                   !.styleLoaded = TRUE,
                   !.runs = [r \in Runs |->
                               IF network.runs[r].pc = "waitLoad"
                                 THEN AddLayerCall(network.runs[r], network.added)
                                 ELSE network.runs[r]]]
  /\ UNCHANGED dataVars
  /\ UNCHANGED editorVars

\* an addLayer that adds the source and the layer whether or not its effect was
\* cleaned up
addLayerNoCancelCheck(r) ==
  /\ network.runs[r].pc = "loading"
  /\ network' = IF network.source
                  THEN [network EXCEPT !.runs[r].pc = "returned"]
                  ELSE [network EXCEPT !.source = TRUE, !.layer = TRUE, !.added = TRUE,
                                       !.runs[r].pc = "added",
                                       !.runs[r].adds = @ + 1]
  /\ UNCHANGED dataVars
  /\ UNCHANGED editorVars

\* shp() resolves for mount r: addLayer continues at line 30
addLayer(r) ==
  /\ network.runs[r].pc = "loading"
  /\ network' = IF network.runs[r].cancelled \/ network.source
                  THEN [network EXCEPT !.runs[r].pc = "returned"]
                  ELSE [network EXCEPT !.source = TRUE, !.layer = TRUE, !.added = TRUE,
                                       !.runs[r].pc = "added",
                                       !.runs[r].adds = @ + 1]
  /\ UNCHANGED dataVars
  /\ UNCHANGED editorVars

\* shp() rejects for mount r: init's catch logs the error
addLayerCatch(r) ==
  /\ network.runs[r].pc = "loading"
  /\ network' = [network EXCEPT !.runs[r].pc = "failed"]
  /\ UNCHANGED dataVars
  /\ UNCHANGED editorVars

\* the cleanup of mount r's effect
useNetworkCleanup(r) ==
  /\ network.runs[r].pc # "none"
  /\ ~network.runs[r].cancelled
  /\ network' = [network EXCEPT !.runs[r].cancelled = TRUE,
                                !.layer = FALSE, !.source = FALSE, !.added = FALSE]
  /\ UNCHANGED dataVars
  /\ UNCHANGED editorVars

NextNetwork ==
  \/ \E r \in Runs : useNetwork(r)
  \/ networkLoad
  \/ \E r \in Runs : addLayer(r)
  \/ \E r \in Runs : addLayerCatch(r)
  \/ \E r \in Runs : useNetworkCleanup(r)

SpecNetwork == Init /\ [][NextNetwork]_vars

\* C35: in useNetwork, when the effect is cleaned up while the shapefile load
\* is still pending, the completion of the load adds no source and no layer to
\* the map; and over any interleaving of mount, load completion and cleanup the
\* network source is added at most once per mount.
C35_NoAddAfterCleanup ==
  /\ [](\A r \in Runs : network.runs[r].adds <= 1)
  /\ [][\A r \in Runs :
          (network.runs[r].cancelled /\ addLayer(r))
          => /\ network'.source = network.source
             /\ network'.layer = network.layer
             /\ network'.added = network.added
             /\ network'.runs[r].adds = network.runs[r].adds]_vars

\* the first mount was cleaned up while its load was pending and the load then
\* completed without adding anything; the second mount added the source
C35_Witness ==
  /\ network.runs[1].cancelled
  /\ network.runs[1].pc = "returned"
  /\ network.runs[1].adds = 0
  /\ network.runs[2].pc = "added"
  /\ network.runs[2].adds = 1
  /\ network.source


\* C36: if the shapefile load succeeds, every useNetworkData consumer that is
\* mounted, whether it mounted before the load started, while it was pending
\* or after it completed, eventually has its data set to the loaded
\* FeatureCollection.
C36_ConsumersGetData ==
  \A c \in Consumers :
    (/\ consumers[c].pc # "unmounted"
     /\ loadingPromise.state = "fulfilled"
     /\ Truthy(loadingPromise.value))
    ~> (/\ consumers[c].data = loadingPromise.value
        /\ Truthy(consumers[c].data))

\* the load has succeeded and all three consumers hold the loaded collection:
\* two of them mounted before it completed and got it from the promise, the
\* third mounted after it and got it from the cache
C36_Witness ==
  /\ loadingPromise.state = "fulfilled"
  /\ Truthy(loadingPromise.value)
  /\ \A c \in Consumers : consumers[c].data = loadingPromise.value
  /\ Cardinality({c \in Consumers : consumers[c].pc = "settled"}) = 2
  /\ Cardinality({c \in Consumers : consumers[c].pc = "returned"}) = 1
====
